---- MODULE Spec2Model ----
(***************************************************************************)
(* Toil tracker v0.1.1: the rule-driven commit classifier                  *)
(* (enhanced_toil_detector.py) and the fingerprint-keyed result cache      *)
(* (toil_performance.py).                                                  *)
(*                                                                         *)
(* Text is modelled by TLA+ strings; characters are the one-character      *)
(* substrings SubSeq(s, i, i).  Python's None is the value None.           *)
(***************************************************************************)
EXTENDS Integers, Sequences, FiniteSets, TLC

VARIABLES
    config,          \* ToilDetector.config: the loaded Rule Set
    commit,          \* the commit handed to the loop body of scan_git_history
    include_file_analysis,   \* argument of scan_git_history
    detected_type,   \* local of scan_git_history: message-based category
    toil_found,      \* local of scan_git_history: the events appended
    phase,           \* position of the classifier run: "input" or "scanned"
    now,             \* the clock: time.time() and the committer date of new commits
    history,         \* the commits of each repository directory, oldest first
    cache_dir,       \* ToilCache.cache_dir: the cache files, by cache key
    pc,              \* position of the caller inside scan_with_caching
    repo_path,       \* argument of scan_with_caching
    days_back,       \* argument of scan_with_caching
    result,          \* local of scan_with_caching: what scan_git_history returned
    frame,           \* observations of the call in progress
    just_done,       \* the call completed last, with its predecessor
    ncalls,          \* number of calls of scan_with_caching started
    cache_files,     \* the cache directory seen by concurrent tasks: key -> inode
    inodes,          \* inode -> content and modification time of a cache file
    task,            \* the concurrent callers of scan_with_caching
    last_set,        \* the ToilCache.set that wrote its last chunk most recently
    repo_list,       \* argument repo_paths of a multi-repository scan
    variant,         \* which multi-repository scan runs
    max_workers,     \* width of the thread pool
    futures,         \* the submitted scan tasks, in submission order
    results,         \* the mapping under construction
    pool_pc,         \* position of the caller inside the multi-repository scan
    stdout,          \* result.stdout of the git log command
    commits,         \* local of scan_git_history: the parsed commits
    worktree,        \* what the path given to scan_repo names
    toil_events,     \* the rows of table toil_events of the database
    returned         \* the values scan_repo returned, call after call

cvars == <<config, commit, include_file_analysis, detected_type, toil_found, phase>>

kvars == <<now, history, cache_dir, pc, repo_path, days_back, result, frame,
           just_done, ncalls>>

fvars == <<cache_files, inodes, task, last_set>>

pvars == <<repo_list, variant, max_workers, futures, results, pool_pc>>

gvars == <<stdout, commits, worktree, toil_events, returned>>

vars == <<cvars, kvars, fvars, pvars, gvars>>

None == "<None>"

(***************************************************************************)
(* Text primitives.                                                        *)
(***************************************************************************)
UpperChars == "ABCDEFGHIJKLMNOPQRSTUVWXYZ"
LowerChars == "abcdefghijklmnopqrstuvwxyz"
Digits == {"0", "1", "2", "3", "4", "5", "6", "7", "8", "9"}
HexChars == Digits \cup {"a", "b", "c", "d", "e", "f"}

\* k in s  (Python substring test on str)
Contains(s, k) ==
    \E i \in 1..(Len(s) - Len(k) + 1) : SubSeq(s, i, i + Len(k) - 1) = k

\* the character table of a case conversion
CaseTable(from, to) ==
    [c \in {SubSeq(from, i, i) : i \in 1..Len(from)} |->
        LET i == CHOOSE i \in 1..Len(from) : SubSeq(from, i, i) = c
        IN  SubSeq(to, i, i)]

ToLower == CaseTable(UpperChars, LowerChars)
ToUpper == CaseTable(LowerChars, UpperChars)

RECURSIVE MapStr(_, _)
MapStr(s, table) ==
    IF s = "" THEN ""
    ELSE LET c == SubSeq(s, 1, 1) IN
         (IF c \in DOMAIN table THEN table[c] ELSE c) \o MapStr(SubSeq(s, 2, Len(s)), table)

\* str.lower() and str.upper() on ASCII text
lower(s) == MapStr(s, ToLower)
upper(s) == MapStr(s, ToUpper)

AllIn(s, i, j, chars) == \A k \in i..j : SubSeq(s, k, k) \in chars

(***************************************************************************)
(* Regular expressions of the Rule Set: a pattern is a sequence of atoms   *)
(*   Lit(w)   the literal text w                                           *)
(*   AnyStar  .*                                                           *)
(*   DigitsP  \d+                                                          *)
(*   Hex7     [a-f0-9]{7,}                                                 *)
(* re.search succeeds when the atoms match at some start position.         *)
(***************************************************************************)
Lit(w) == [t |-> "lit", s |-> w]
AnyStar == [t |-> "any", s |-> ""]
DigitsP == [t |-> "digits", s |-> ""]
Hex7 == [t |-> "hex7", s |-> ""]

RECURSIVE MatchFrom(_, _, _, _)
MatchFrom(re, k, s, i) ==
    IF k > Len(re) THEN TRUE
    ELSE LET a == re[k] IN
         CASE a.t = "lit" ->
                /\ i + Len(a.s) - 1 <= Len(s)
                /\ SubSeq(s, i, i + Len(a.s) - 1) = a.s
                /\ MatchFrom(re, k + 1, s, i + Len(a.s))
           [] a.t = "any" ->
                \E j \in i..(Len(s) + 1) : MatchFrom(re, k + 1, s, j)
           [] a.t = "digits" ->
                \E j \in (i + 1)..(Len(s) + 1) :
                    AllIn(s, i, j - 1, Digits) /\ MatchFrom(re, k + 1, s, j)
           [] a.t = "hex7" ->
                \E j \in (i + 7)..(Len(s) + 1) :
                    AllIn(s, i, j - 1, HexChars) /\ MatchFrom(re, k + 1, s, j)

re_search(re, s) == \E i \in 1..(Len(s) + 1) : MatchFrom(re, 1, s, i)

(***************************************************************************)
(* pathlib.PurePath.match with a relative pattern: the pattern's           *)
(* components are matched with fnmatch (star and ? wildcards) against the   *)
(* last components of the path.                                            *)
(***************************************************************************)
RECURSIVE SplitParts(_, _)
SplitParts(s, acc) ==
    IF s = "" THEN (IF acc = "" \/ acc = "." THEN <<>> ELSE <<acc>>)
    ELSE IF SubSeq(s, 1, 1) = "/"
         THEN (IF acc = "" \/ acc = "." THEN <<>> ELSE <<acc>>)
                  \o SplitParts(SubSeq(s, 2, Len(s)), "")
         ELSE SplitParts(SubSeq(s, 2, Len(s)), acc \o SubSeq(s, 1, 1))

parts(p) == SplitParts(p, "")

RECURSIVE fnmatch(_, _)
fnmatch(name, pat) ==
    IF pat = "" THEN name = ""
    ELSE LET pch == SubSeq(pat, 1, 1)
             rest == SubSeq(pat, 2, Len(pat)) IN
         IF pch = "*"
         THEN \E j \in 1..(Len(name) + 1) : fnmatch(SubSeq(name, j, Len(name)), rest)
         ELSE /\ name # ""
              /\ (pch = "?" \/ pch = SubSeq(name, 1, 1))
              /\ fnmatch(SubSeq(name, 2, Len(name)), rest)

Path_match(file, pattern) ==
    LET fp == parts(file)
        pp == parts(pattern) IN
    /\ Len(pp) <= Len(fp)
    /\ \A k \in 1..Len(pp) : fnmatch(fp[Len(fp) - Len(pp) + k], pp[k])

(***************************************************************************)
(* The Rule Set.  A rule is [name, keywords, regex, file_patterns,         *)
(* exclude]; config.patterns is the sequence of rules in dictionary        *)
(* (configuration) order and config.severity the sequence of               *)
(* [level, keywords] in dictionary order.                                  *)
(***************************************************************************)
Rule(n, k, r, f, e) ==
    [name |-> n, keywords |-> k, regex |-> r, file_patterns |-> f, exclude |-> e]

DefaultPatterns == <<
    Rule("manual_deploy",
         <<"deploy", "deployment", "production deploy", "prod deploy">>,
         << <<Lit("deploy"), AnyStar, Lit("production")>>,
            <<Lit("prod"), AnyStar, Lit("deploy")>>,
            <<Lit("release"), AnyStar, Lit("v"), DigitsP, Lit("."), DigitsP>>,
            <<Lit("pipeline"), AnyStar, Lit("run")>> >>,
         <<"deploy*.sh", "docker-compose.*.yml", "k8s/*.yaml">>,
         <<"test", "staging", "dev">>),
    Rule("manual_fix",
         <<"fix", "hotfix", "emergency", "manual", "patch">>,
         << <<Lit("emergency"), AnyStar, Lit("fix")>>,
            <<Lit("critical"), AnyStar, Lit("bug")>>,
            <<Lit("manual"), AnyStar, Lit("intervention")>>,
            <<Lit("hotfix"), AnyStar, DigitsP>> >>,
         <<"*.patch", "hotfix*">>,
         <<"test", "unit test">>),
    Rule("revert",
         <<"revert", "rollback", "backed out">>,
         << <<Lit("revert"), AnyStar, Hex7>>,
            <<Lit("rollback"), AnyStar, Lit("version")>>,
            <<Lit("backed out"), AnyStar, Lit("changes")>> >>,
         <<>>,
         <<>>),
    Rule("env_setup",
         <<"env", "environment", "setup", "config", "configuration">>,
         << <<Lit("environment"), AnyStar, Lit("setup")>>,
            <<Lit("config"), AnyStar, Lit("change")>>,
            <<Lit("infrastructure"), AnyStar, Lit("update")>>,
            <<Lit("terraform"), AnyStar, Lit("apply")>> >>,
         <<"*.tf", "ansible/*", "puppet/*", "chef/*", "Dockerfile">>,
         <<>>),
    Rule("restart",
         <<"restart", "reboot", "restart service">>,
         << <<Lit("service"), AnyStar, Lit("restart")>>,
            <<Lit("server"), AnyStar, Lit("reboot")>>,
            <<Lit("container"), AnyStar, Lit("restart")>> >>,
         <<>>,
         <<>>),
    Rule("pipeline_issue",
         <<"pipeline", "ci", "cd", "build">>,
         << <<Lit("pipeline"), AnyStar, Lit("failed")>>,
            <<Lit("ci"), AnyStar, Lit("fix")>>,
            <<Lit("build"), AnyStar, Lit("broken")>>,
            <<Lit("jenkins"), AnyStar, Lit("issue")>> >>,
         <<"*.yml", "Jenkinsfile", ".github/workflows/*">>,
         <<>>),
    Rule("kubernetes",
         <<"k8s", "kubernetes", "kubectl", "pod">>,
         << <<Lit("kubectl"), AnyStar, Lit("apply")>>,
            <<Lit("k8s"), AnyStar, Lit("restart")>>,
            <<Lit("pod"), AnyStar, Lit("crash")>>,
            <<Lit("deployment"), AnyStar, Lit("rollback")>> >>,
         <<"k8s/*.yaml", "kubernetes/*.yaml">>,
         <<>>) >>

DefaultSeverity == <<
    [level |-> "high",
     keywords |-> <<"emergency", "critical", "urgent", "outage", "downtime", "security">>],
    [level |-> "medium",
     keywords |-> <<"hotfix", "production", "manual", "ci", "pipeline">>],
    [level |-> "low",
     keywords |-> <<"update", "config", "restart", "env">>] >>

\* _load_config with no configuration file
default_config == [patterns |-> DefaultPatterns, severity |-> DefaultSeverity]

\* _load_config with a configuration file: default_config.update(user_config)
\* replaces the top-level keys the file gives
_load_config(user_patterns, user_severity) ==
    [patterns |-> IF user_patterns = None THEN DefaultPatterns ELSE user_patterns,
     severity |-> IF user_severity = None THEN DefaultSeverity ELSE user_severity]

(***************************************************************************)
(* The classifier.                                                         *)
(***************************************************************************)
\* variant: the keyword fast path is skipped
KeywordHit_Skipped(rule, message_lower) == TRUE

\* the three conditions of one rule on the lower-cased message (lines 222-229)
KeywordHit(rule, message_lower) ==
    \E i \in 1..Len(rule.keywords) : Contains(message_lower, rule.keywords[i])

\* variant: keyword-only matching, no confirm pattern required
RegexConfirmed_Skipped(rule, message_lower) == TRUE

RegexConfirmed(rule, message_lower) ==
    \/ rule.regex = <<>>
    \/ \E i \in 1..Len(rule.regex) : re_search(rule.regex[i], message_lower)

Excluded(rule, message_lower) ==
    \E i \in 1..Len(rule.exclude) : Contains(message_lower, rule.exclude[i])

\* variant: the exclusion terms are not consulted
RuleSatisfied_NoExclusion(rule, message_lower) ==
    /\ \E i \in 1..Len(rule.keywords) : Contains(message_lower, rule.keywords[i])
    /\ \/ rule.regex = <<>>
       \/ \E i \in 1..Len(rule.regex) : re_search(rule.regex[i], message_lower)

RuleSatisfied(rule, message_lower) ==
    /\ KeywordHit(rule, message_lower)
    /\ RegexConfirmed(rule, message_lower)
    /\ ~Excluded(rule, message_lower)

\* variant: the loop does not return at the first satisfying rule, the last
\* satisfying rule wins
MessageLoop_LastMatch(patterns, i, message_lower) ==
    LET sat == {k \in i..Len(patterns) :
                   /\ \E w \in 1..Len(patterns[k].keywords) :
                          Contains(message_lower, patterns[k].keywords[w])
                   /\ \/ patterns[k].regex = <<>>
                      \/ \E r \in 1..Len(patterns[k].regex) :
                             re_search(patterns[k].regex[r], message_lower)
                   /\ ~\E x \in 1..Len(patterns[k].exclude) :
                          Contains(message_lower, patterns[k].exclude[x])}
    IN  IF sat = {} THEN None
        ELSE patterns[CHOOSE k \in sat : \A j \in sat : j <= k].name

\* for task_type, config in self.config['patterns'].items(): the first rule,
\* from position i on, that satisfies the three conditions
RECURSIVE MessageLoop(_, _, _)
MessageLoop(patterns, i, message_lower) ==
    IF i > Len(patterns) THEN None
    ELSE IF RuleSatisfied(patterns[i], message_lower) THEN patterns[i].name
    ELSE MessageLoop(patterns, i + 1, message_lower)

\* variant: only the first rule is evaluated; when it fails a condition the
\* pass stops with no category
_analyze_commit_message_FirstRuleOnly(cfg, message) ==
    IF cfg.patterns # <<>> /\ RuleSatisfied(cfg.patterns[1], lower(message))
    THEN cfg.patterns[1].name
    ELSE None

_analyze_commit_message(cfg, message) == MessageLoop(cfg.patterns, 1, lower(message))

FilesHit(rule, files) ==
    \E p \in 1..Len(rule.file_patterns) :
        \E f \in 1..Len(files) : Path_match(files[f], rule.file_patterns[p])

RECURSIVE FilesLoop(_, _, _)
FilesLoop(patterns, i, files) ==
    IF i > Len(patterns) THEN None
    ELSE IF FilesHit(patterns[i], files) THEN patterns[i].name
    ELSE FilesLoop(patterns, i + 1, files)

_analyze_files_changed(cfg, files) == FilesLoop(cfg.patterns, 1, files)

LevelHit(entry, message_lower) ==
    \E i \in 1..Len(entry.keywords) : Contains(message_lower, entry.keywords[i])

\* variant: the levels are visited from the last one written to the first
SeverityLoop_Backwards(severity, i, message_lower) ==
    LET hit == {k \in i..Len(severity) :
                   \E w \in 1..Len(severity[k].keywords) :
                       Contains(message_lower, severity[k].keywords[w])}
    IN  IF hit = {} THEN None
        ELSE upper(severity[CHOOSE k \in hit : \A j \in hit : j <= k].level)

\* for level, keywords in self.config['severity'].items()
RECURSIVE SeverityLoop(_, _, _)
SeverityLoop(severity, i, message_lower) ==
    IF i > Len(severity) THEN None
    ELSE IF LevelHit(severity[i], message_lower) THEN upper(severity[i].level)
    ELSE SeverityLoop(severity, i + 1, message_lower)

\* variant: manual_fix is not a high severity type
high_severity_types_NoManualFix == {"revert", "pipeline_issue"}

high_severity_types == {"manual_fix", "revert", "pipeline_issue"}
medium_severity_types == {"manual_deploy", "restart"}

\* variant: without a lexicon hit the severity is LOW whatever the category
_assess_severity_FallbackLow(cfg, message, task_type) ==
    LET from_lexicon == SeverityLoop(cfg.severity, 1, lower(message)) IN
    IF from_lexicon # None THEN from_lexicon ELSE "LOW"

_assess_severity(cfg, message, task_type) ==
    LET from_lexicon == SeverityLoop(cfg.severity, 1, lower(message)) IN
    IF from_lexicon # None THEN from_lexicon
    ELSE IF task_type \in high_severity_types THEN "HIGH"
    ELSE IF task_type \in medium_severity_types THEN "MEDIUM"
    ELSE "LOW"

\* variant: detected_type or file_based_type
final_type_MessageFirst(file_based_type, detected) ==
    IF detected # None THEN detected ELSE file_based_type

\* final_type = file_based_type or detected_type
final_type(file_based_type, detected) ==
    IF file_based_type # None THEN file_based_type ELSE detected

RECURSIVE join(_, _)
join(sep, seq) ==
    IF seq = <<>> THEN ""
    ELSE IF Len(seq) = 1 THEN seq[1]
    ELSE seq[1] \o sep \o join(sep, Tail(seq))

\* variant: the file-based pass runs whether or not file analysis is enabled
ClassifyCommit_FilesAlways(cfg, dir, c, file_analysis) ==
    LET detected == _analyze_commit_message(cfg, c.message) IN
    IF detected = None THEN <<>>
    ELSE LET file_based_type ==
                 IF c.files # <<>>
                 THEN _analyze_files_changed(cfg, c.files)
                 ELSE None
             task_type == final_type(file_based_type, detected)
             severity == _assess_severity(cfg, c.message, task_type)
         IN  << [date |-> c.date,
                 repo_path |-> dir,
                 task_type |-> task_type,
                 description |-> c.message,
                 severity |-> severity,
                 author |-> c.author,
                 files_changed |-> join(",", c.files)] >>

\* the body of the loop of scan_git_history for one commit (lines 155-178):
\* the events it appends to toil_found
ClassifyCommit(cfg, dir, c, file_analysis) ==
    LET detected == _analyze_commit_message(cfg, c.message) IN
    IF detected = None THEN <<>>
    ELSE LET file_based_type ==
                 IF file_analysis /\ c.files # <<>>
                 THEN _analyze_files_changed(cfg, c.files)
                 ELSE None
             task_type == final_type(file_based_type, detected)
             severity == _assess_severity(cfg, c.message, task_type)
         IN  << [date |-> c.date,
                 repo_path |-> dir,
                 task_type |-> task_type,
                 description |-> c.message,
                 severity |-> severity,
                 author |-> c.author,
                 files_changed |-> join(",", c.files)] >>

(***************************************************************************)
(* The repositories and the result cache (toil_performance.py).            *)
(*                                                                         *)
(* Time is counted in ticks of the clock now.  A commit gets the clock     *)
(* value as its committer date, which is what git log -1 --format=%cd      *)
(* prints for the last commit; a directory with no commit makes git log    *)
(* fail.  Commits landing within one tick have the same committer date.   *)
(* The md5 digest is taken to be free of collisions.                       *)
(***************************************************************************)
TTL == 1
MaxCalls == 2

\* the clock runs until an entry written at time 0 has expired
MaxTime == TTL + 1

\* the cache lives for an hour by default
TicksPerDay == 24 * TTL

\* the process runs in Cwd; the repository is named by a relative and by an
\* absolute path
Cwd == "/srv"
RepoPaths == {"a", "/srv/a"}
Windows == {7, 30}

\* Path(repo_path).resolve()
resolve(p) == IF SubSeq(p, 1, 1) = "/" THEN p ELSE Cwd \o "/" \o p

Dirs == {resolve(p) : p \in RepoPaths}

RECURSIVE Reverse(_)
Reverse(seq) == IF seq = <<>> THEN <<>> ELSE Append(Reverse(Tail(seq)), Head(seq))

\* git log --since="<days> days ago": whether git succeeds, and the commits
\* of the window, newest first
git_ok(hist) == hist # <<>>

git_log(hist, days, t) ==
    Reverse(SelectSeq(hist, LAMBDA c : t - c.cdate <= days * TicksPerDay))

\* variant: the events come out in the opposite order of the commits
RECURSIVE ScanCommits_NewestLast(_, _, _, _)
ScanCommits_NewestLast(cfg, dir, remaining, file_analysis) ==
    IF remaining = <<>> THEN <<>>
    ELSE ScanCommits_NewestLast(cfg, dir, Tail(remaining), file_analysis)
             \o ClassifyCommit(cfg, dir, Head(remaining), file_analysis)

RECURSIVE ScanCommits(_, _, _, _)
ScanCommits(cfg, dir, remaining, file_analysis) ==
    IF remaining = <<>> THEN <<>>
    ELSE ClassifyCommit(cfg, dir, Head(remaining), file_analysis)
             \o ScanCommits(cfg, dir, Tail(remaining), file_analysis)

\* ToilDetector.scan_git_history: the events of the window, or [] when the
\* git command fails
scan_git_history(cfg, hist, path, days, t) ==
    IF ~git_ok(hist) THEN <<>>
    ELSE ScanCommits(cfg, resolve(path), git_log(hist, days, t), TRUE)

\* variant: when git fails the fingerprint is the time of the attempt
_get_last_commit_date_FailureTime(hist) ==
    IF git_ok(hist) THEN ToString(hist[Len(hist)].cdate) ELSE ToString(now)

\* ToilCache._get_last_commit_date
_get_last_commit_date(hist) ==
    IF git_ok(hist) THEN ToString(hist[Len(hist)].cdate) ELSE ""

\* hashlib.md5(key_data.encode()).hexdigest(): a digest, taken to be free of
\* collisions on the key data of a run
md5(key_data) == "md5(" \o key_data \o ")"

\* variant: the key leaves the fingerprint out
_get_cache_key_NoFingerprint(hist, path, days) ==
    md5(resolve(path) \o ":" \o ToString(days) \o ":")

\* ToilCache._get_cache_key
_get_cache_key(hist, path, days) ==
    md5(resolve(path) \o ":" \o ToString(days) \o ":" \o _get_last_commit_date(hist))

\* variant: an entry expires as soon as its age reaches the TTL
Expired_AtTTL(entry, t) == t - entry.mtime >= TTL

\* file_age > self.ttl
Expired(entry, t) == t - entry.mtime > TTL

\* the record of a completed call of scan_with_caching
NoCall ==
    [valid |-> FALSE, dir |-> "", days |-> 0, events |-> <<>>, hit |-> FALSE,
     scanned |-> FALSE, key_lookup |-> "", fp_lookup |-> "", fp_end |-> "",
     t_lookup |-> 0, n_lookup |-> 0, stored |-> FALSE, entry_mtime |-> 0,
     n_end |-> 0, computed_at |-> 0]

\* what a later call is compared with
Kept(rec) ==
    [valid |-> rec.valid, dir |-> rec.dir, days |-> rec.days,
     events |-> rec.events, hit |-> rec.hit, fp_end |-> rec.fp_end,
     stored |-> rec.stored, entry_mtime |-> rec.entry_mtime, n_end |-> rec.n_end]

NoFrame == [t_lookup |-> 0, fp_lookup |-> "", key_lookup |-> "", n_lookup |-> 0,
            computed_at |-> 0]

CacheIdle ==
    /\ now = 0
    /\ history = [d \in Dirs |-> <<>>]
    /\ cache_dir = <<>>
    /\ pc = "idle"
    /\ repo_path = ""
    /\ days_back = 0
    /\ result = <<>>
    /\ frame = NoFrame
    /\ just_done = [cur |-> NoCall, prev |-> Kept(NoCall)]
    /\ ncalls = 0

\* no concurrent task and no multi-repository scan is running
NoSet == [valid |-> FALSE, task |-> "", key |-> "", payload |-> <<>>, content |-> "",
          alone |-> FALSE, replaced |-> None]

FilesIdle ==
    /\ cache_files = <<>>
    /\ inodes = <<>>
    /\ task = <<>>
    /\ last_set = NoSet

PoolIdle ==
    /\ repo_list = <<>>
    /\ variant = ""
    /\ max_workers = 0
    /\ futures = <<>>
    /\ results = <<>>
    /\ pool_pc = "idle"

\* no git log output is being parsed and scan_repo is not running
GitIdle ==
    /\ stdout = ""
    /\ commits = <<>>
    /\ worktree = "git"
    /\ toil_events = <<>>
    /\ returned = <<>>

(***************************************************************************)
(* Inputs of the classifier runs.  Synthetic Rule Sets are built over the  *)
(* letters a, b, c, with up to MaxRules rules in every order: one family   *)
(* varies keyword, confirm pattern and exclusion, the other keyword and    *)
(* file pattern.  The default Rule Set is run on realistic commits.        *)
(***************************************************************************)
MaxRules == 2
MaxMsgLen == 3

RuleNames == <<"manual_deploy", "manual_fix", "env_setup", "restart">>

MessageRules(n) ==
    { Rule(n, k, r, <<>>, e) :
        k \in {<<"a">>, <<"b">>},
        r \in {<<>>, << <<Lit("a"), AnyStar, Lit("b")>> >>},
        e \in {<<>>, <<"c">>} }

FileRules(n) ==
    { Rule(n, k, <<>>, f, <<>>) :
        k \in {<<"a">>, <<"b">>},
        f \in {<<>>, <<"*.x">>} }

RECURSIVE RuleSeqs(_, _)
RuleSeqs(n, family) ==
    IF n = 0 THEN {<<>>}
    ELSE {Append(rs, r) : rs \in RuleSeqs(n - 1, family),
                          r \in IF family = "message" THEN MessageRules(RuleNames[n])
                                ELSE FileRules(RuleNames[n])}

MessagePatterns == UNION {RuleSeqs(n, "message") : n \in 0..MaxRules}
FilePatterns == UNION {RuleSeqs(n, "file") : n \in 0..MaxRules}

\* the same lexicon written in the two orders; "b" is listed under two levels
SynthSeverities == {
    << [level |-> "high", keywords |-> <<"b">>],
       [level |-> "medium", keywords |-> <<"ca">>],
       [level |-> "low", keywords |-> <<"c", "b">>] >>,
    << [level |-> "low", keywords |-> <<"c", "b">>],
       [level |-> "medium", keywords |-> <<"ca">>],
       [level |-> "high", keywords |-> <<"b">>] >> }

RECURSIVE Words(_)
Words(n) ==
    IF n = 0 THEN {""}
    ELSE {w \o c : w \in Words(n - 1), c \in {"a", "b", "c"}}

SynthMessages == UNION {Words(n) : n \in 0..MaxMsgLen}

SynthFiles == {<<"g.y">>, <<"g.y", "d/f.x">>}

DefaultMessages == {
    "emergency hotfix to production server",
    "update config file",
    "Deploy to PRODUCTION",
    "deploy to production staging",
    "deploy production test pipeline failed",
    "config change update",
    "urgent update of env config change",
    "revert abc1234 rollback version",
    "hotfix 42",
    "restart service",
    "Add feature 2",
    "terraform apply setup",
    "" }

DefaultFiles == {
    <<>>,
    <<"README.md">>,
    <<"deploy_prod.sh">>,
    <<"main.tf", "ci.yml">>,
    <<"fix.patch">>,
    <<"src/k8s/app.yaml", "x.patch">> }

Commit(m, f) ==
    [hash |-> "abc1234", message |-> m, date |-> "2024-01-15", author |-> "dev", files |-> f]

RepoPath == "/repo"

InitClassify ==
    /\ \/ /\ config = default_config
          /\ \E m \in DefaultMessages, f \in DefaultFiles : commit = Commit(m, f)
          /\ include_file_analysis \in BOOLEAN
       \/ /\ \E p \in MessagePatterns, sv \in SynthSeverities : config = _load_config(p, sv)
          /\ \E m \in SynthMessages : commit = Commit(m, <<>>)
          /\ include_file_analysis = TRUE
       \/ /\ \E p \in FilePatterns, sv \in SynthSeverities : config = _load_config(p, sv)
          /\ \E m \in SynthMessages, f \in SynthFiles : commit = Commit(m, f)
          /\ include_file_analysis \in BOOLEAN
    /\ detected_type = None
    /\ toil_found = <<>>
    /\ phase = "input"
    /\ CacheIdle
    /\ FilesIdle
    /\ PoolIdle
    /\ GitIdle

\* one pass of the loop of scan_git_history over the commit
ScanCommit ==
    /\ phase = "input"
    /\ detected_type' = _analyze_commit_message(config, commit.message)
    /\ toil_found' = toil_found \o ClassifyCommit(config, RepoPath, commit, include_file_analysis)
    /\ phase' = "scanned"
    /\ UNCHANGED <<config, commit, include_file_analysis, gvars, kvars, fvars, pvars>>

NextClassify == ScanCommit

SpecClassify == InitClassify /\ [][NextClassify]_vars

(***************************************************************************)
(* scan_with_caching, one caller, with commits landing and time passing    *)
(* between its steps: the cache lookup, the history scan, the cache write. *)
(***************************************************************************)
\* the commits that may land, each once, in either order
CommitChoices == {
    [hash |-> "abc1234", message |-> "hotfix 42", files |-> <<>>],
    [hash |-> "def5678", message |-> "Add feature 2", files |-> <<"README.md">>] }

ClassifierIdle ==
    /\ config = default_config
    /\ commit = Commit("", <<>>)
    /\ include_file_analysis = TRUE
    /\ detected_type = None
    /\ toil_found = <<>>
    /\ phase = "idle"

Init == ClassifierIdle /\ CacheIdle /\ FilesIdle /\ PoolIdle /\ GitIdle

Dir == resolve(repo_path)

Complete(rec) ==
    /\ just_done' = [cur |-> rec, prev |-> Kept(just_done.cur)]
    /\ pc' = "idle"
    /\ frame' = NoFrame
    /\ repo_path' = ""
    /\ days_back' = 0
    /\ result' = <<>>

\* a commit lands in a repository
CommitLands(d, ch) ==
    /\ \A i \in 1..Len(history[d]) : history[d][i].hash # ch.hash
    /\ history' = [history EXCEPT ![d] = Append(@,
           [hash |-> ch.hash,
            message |-> ch.message,
            date |-> "day" \o ToString(now \div TicksPerDay),
            author |-> "dev",
            files |-> ch.files,
            cdate |-> now])]
    /\ UNCHANGED <<cvars, gvars, fvars, pvars, now, cache_dir, pc, repo_path, days_back, result, frame,
                   just_done, ncalls>>

Tick ==
    /\ now < MaxTime
    /\ now' = now + 1
    /\ UNCHANGED <<cvars, gvars, fvars, pvars, history, cache_dir, pc, repo_path, days_back, result, frame,
                   just_done, ncalls>>

\* the caller enters scan_with_caching(detector, path, days)
Call(path, days) ==
    /\ pc = "idle"
    /\ ncalls < MaxCalls
    /\ ncalls' = ncalls + 1
    /\ repo_path' = path
    /\ days_back' = days
    /\ result' = <<>>
    /\ pc' = "get"
    /\ UNCHANGED <<cvars, gvars, fvars, pvars, now, history, cache_dir, frame, just_done>>

\* cached_result = self.cache.get(repo_path, days_back), and the return of
\* the cached result on a hit
CacheGet ==
    /\ pc = "get"
    /\ LET cache_key == _get_cache_key(history[Dir], repo_path, days_back)
           fp == _get_last_commit_date(history[Dir])
           seen == [t_lookup |-> now, fp_lookup |-> fp, key_lookup |-> cache_key,
                    n_lookup |-> Len(history[Dir]), computed_at |-> 0]
       IN  IF cache_key \notin DOMAIN cache_dir
           THEN /\ pc' = "scan"
                /\ frame' = seen
                /\ UNCHANGED <<cache_dir, repo_path, days_back, result, just_done>>
           ELSE IF Expired(cache_dir[cache_key], now)
           THEN /\ cache_dir' = [k \in DOMAIN cache_dir \ {cache_key} |-> cache_dir[k]]
                /\ pc' = "scan"
                /\ frame' = seen
                /\ UNCHANGED <<repo_path, days_back, result, just_done>>
           ELSE /\ Complete([valid |-> TRUE, dir |-> Dir, days |-> days_back,
                             events |-> cache_dir[cache_key].data, hit |-> TRUE,
                             scanned |-> FALSE, key_lookup |-> cache_key,
                             fp_lookup |-> fp, fp_end |-> fp, t_lookup |-> now,
                             n_lookup |-> Len(history[Dir]),
                             stored |-> TRUE,
                             entry_mtime |-> cache_dir[cache_key].mtime,
                             n_end |-> Len(history[Dir]),
                             computed_at |-> cache_dir[cache_key].computed_at])
                /\ UNCHANGED cache_dir
    /\ UNCHANGED <<cvars, gvars, fvars, pvars, now, history, ncalls>>

\* result = detector.scan_git_history(repo_path, days_back)
ScanGitHistory ==
    /\ pc = "scan"
    /\ result' = scan_git_history(config, history[Dir], repo_path, days_back, now)
    /\ frame' = [frame EXCEPT !.computed_at = Len(history[Dir])]
    /\ pc' = "set"
    /\ UNCHANGED <<cvars, gvars, fvars, pvars, now, history, cache_dir, repo_path, days_back,
                   just_done, ncalls>>

\* self.cache.set(repo_path, days_back, result), whose write may fail, and
\* the return of the result
CacheSet ==
    /\ pc = "set"
    /\ \E written \in BOOLEAN :
        LET cache_key == _get_cache_key(history[Dir], repo_path, days_back)
            entry == [data |-> result, mtime |-> now, computed_at |-> frame.computed_at]
        IN  /\ cache_dir' = IF written
                            THEN [k \in DOMAIN cache_dir \cup {cache_key} |->
                                     IF k = cache_key THEN entry ELSE cache_dir[k]]
                            ELSE cache_dir
            /\ Complete([valid |-> TRUE, dir |-> Dir, days |-> days_back,
                         events |-> result, hit |-> FALSE, scanned |-> TRUE,
                         key_lookup |-> frame.key_lookup,
                         fp_lookup |-> frame.fp_lookup,
                         n_lookup |-> frame.n_lookup,
                         fp_end |-> _get_last_commit_date(history[Dir]),
                         t_lookup |-> frame.t_lookup,
                         stored |-> cache_key \in DOMAIN cache_dir',
                         entry_mtime |-> IF cache_key \in DOMAIN cache_dir'
                                         THEN cache_dir'[cache_key].mtime ELSE 0,
                         n_end |-> Len(history[Dir]),
                         computed_at |-> frame.computed_at])
    /\ UNCHANGED <<cvars, gvars, fvars, pvars, now, history, ncalls>>

Next ==
    \/ \E d \in Dirs, ch \in CommitChoices : CommitLands(d, ch)
    \/ Tick
    \/ \E path \in RepoPaths, days \in Windows : Call(path, days)
    \/ CacheGet
    \/ ScanGitHistory
    \/ CacheSet

Spec == Init /\ [][Next]_vars

(***************************************************************************)
(* Properties of the classifier, checked under SpecClassify.               *)
(***************************************************************************)
Scanned == phase = "scanned"

message_lower == lower(commit.message)

RuleIndexes == 1..Len(config.patterns)

\* the rules that individually satisfy the three conditions on the message
Satisfying ==
    {i \in RuleIndexes :
        /\ KeywordHit(config.patterns[i], message_lower)
        /\ RegexConfirmed(config.patterns[i], message_lower)
        /\ ~Excluded(config.patterns[i], message_lower)}

\* the rules having a file pattern that matches a changed file
FileMatching == {i \in RuleIndexes : FilesHit(config.patterns[i], commit.files)}

NoKeywordInMessage ==
    \A i \in RuleIndexes :
        \A k \in 1..Len(config.patterns[i].keywords) :
            ~Contains(message_lower, config.patterns[i].keywords[k])

\* C1: a commit whose lower-cased message contains no keyword of any rule
\* yields no message-based category and no event, whatever its changed files.
C1_NoKeywordNoEvent ==
    (Scanned /\ NoKeywordInMessage) => (detected_type = None /\ toil_found = <<>>)

C1_Witness ==
    /\ Scanned
    /\ NoKeywordInMessage
    /\ include_file_analysis
    /\ FileMatching # {}
    /\ commit.message # ""
    /\ toil_found = <<>>

\* C2: the message-based category is that of the first rule, in configuration
\* order, that satisfies all three conditions; a later satisfying rule never
\* takes precedence over an earlier one.
C2_RulePrecedence ==
    (Scanned /\ Satisfying # {}) =>
        /\ \E i \in Satisfying :
              /\ \A j \in Satisfying : i <= j
              /\ detected_type = config.patterns[i].name
        /\ \A i, j \in Satisfying :
              i < j => detected_type # config.patterns[j].name

C2_Witness ==
    /\ Scanned
    /\ \E i, j \in Satisfying :
          /\ i < j
          /\ detected_type = config.patterns[i].name
          /\ config.patterns[i].regex # <<>>

\* a rule whose keyword and confirm pattern hit the message, which also
\* contains one of the rule's exclude terms
Vetoed ==
    {i \in RuleIndexes :
        /\ KeywordHit(config.patterns[i], message_lower)
        /\ RegexConfirmed(config.patterns[i], message_lower)
        /\ Excluded(config.patterns[i], message_lower)}

\* C3 as stated: a message that hits a rule's keyword and confirm pattern and
\* contains one of its exclude terms yields no category and no event,
\* whatever other rules are configured.
C3_Original ==
    (Scanned /\ Vetoed # {}) => (detected_type = None /\ toil_found = <<>>)

\* C3 (amended): such a rule is never the message-based category, and the
\* result is empty exactly when no other rule satisfies all three conditions;
\* otherwise the first satisfying rule is returned.
C3_ExcludedRuleSkipped ==
    (Scanned /\ Vetoed # {}) =>
        /\ \A i \in Vetoed : detected_type # config.patterns[i].name
        /\ (Satisfying = {}) <=> (detected_type = None)
        /\ (Satisfying = {}) <=> (toil_found = <<>>)

C3_Witness ==
    /\ Scanned
    /\ \E i \in Vetoed : config.patterns[i].regex # <<>>
    /\ detected_type # None
    /\ Len(toil_found) = 1

\* C4 as stated: when the message matches category A and the changed files
\* match a file pattern of category B, the event's category is B.
C4_Original ==
    (Scanned /\ include_file_analysis /\ detected_type # None) =>
        \A b \in FileMatching :
            /\ Len(toil_found) = 1
            /\ toil_found[1].task_type = config.patterns[b].name

\* C4 (amended): the event's category is that of the first rule, in
\* configuration order, having a file pattern that matches a changed file.
C4_FileOverride ==
    (Scanned /\ include_file_analysis /\ detected_type # None /\ FileMatching # {}) =>
        /\ Len(toil_found) = 1
        /\ \E b \in FileMatching :
              /\ \A c \in FileMatching : b <= c
              /\ toil_found[1].task_type = config.patterns[b].name

C4_Witness ==
    /\ Scanned
    /\ include_file_analysis
    /\ detected_type # None
    /\ Len(toil_found) = 1
    /\ \E b \in FileMatching :
          /\ config.patterns[b].name # detected_type
          /\ toil_found[1].task_type = config.patterns[b].name

\* the levels of the lexicon that have a word in the message
LevelsHit ==
    {upper(config.severity[i].level) : i \in
        {k \in 1..Len(config.severity) : LevelHit(config.severity[k], message_lower)}}

\* C5: severity levels are checked in the order HIGH, MEDIUM, LOW whatever
\* the order the lexicon is written in: the event's severity is the highest
\* ranked level having a word in the message.
C5_SeverityPrecedence ==
    (Scanned /\ toil_found # <<>> /\ LevelsHit # {}) =>
        toil_found[1].severity =
            IF "HIGH" \in LevelsHit THEN "HIGH"
            ELSE IF "MEDIUM" \in LevelsHit THEN "MEDIUM"
            ELSE "LOW"

\* C6: with the default rules, "emergency hotfix to production server" with
\* no changed files classifies as manual_fix with severity HIGH.
C6_EmergencyHotfix ==
    (/\ Scanned
     /\ config = default_config
     /\ commit.message = "emergency hotfix to production server"
     /\ commit.files = <<>>) =>
        /\ Len(toil_found) = 1
        /\ toil_found[1].task_type = "manual_fix"
        /\ toil_found[1].severity = "HIGH"

C6_Witness ==
    /\ Scanned
    /\ config = default_config
    /\ commit.message = "emergency hotfix to production server"
    /\ commit.files = <<>>
    /\ detected_type = "manual_fix"
    /\ toil_found # <<>>

UpdateConfigFile ==
    /\ Scanned
    /\ config = default_config
    /\ commit.message = "update config file"
    /\ commit.files = <<"README.md">>

\* C7 as stated: with the default rules, "update config file" with changed
\* files README.md produces an event of category env_setup, severity LOW.
C7_Original ==
    UpdateConfigFile =>
        /\ Len(toil_found) = 1
        /\ toil_found[1].task_type = "env_setup"
        /\ toil_found[1].severity = "LOW"

\* C7 (amended): with the default rules that commit produces no event: the
\* keyword "config" of env_setup hits but none of its confirm patterns does,
\* and no other rule has a keyword in the message.
C7_UpdateConfigNoEvent ==
    UpdateConfigFile =>
        /\ detected_type = None
        /\ toil_found = <<>>
        /\ \A i \in RuleIndexes :
              KeywordHit(config.patterns[i], message_lower)
                  <=> config.patterns[i].name = "env_setup"

C7_Witness ==
    /\ UpdateConfigFile
    /\ toil_found = <<>>
    /\ ~NoKeywordInMessage

(***************************************************************************)
(* Properties of scan_with_caching, checked under Spec.  They compare the  *)
(* call completed last with the call completed before it.                  *)
(***************************************************************************)
this_call == just_done.cur

prev_call == just_done.prev

\* two consecutive completed calls for the same directory and window
ConsecutivePair ==
    /\ this_call.valid
    /\ prev_call.valid
    /\ this_call.dir = prev_call.dir
    /\ this_call.days = prev_call.days

\* no commit landed from the end of the first call to the end of the second
NoCommitBetween == this_call.n_end = prev_call.n_end

\* the first call left an entry, and the second looked it up within the TTL
EntryStillFresh ==
    /\ prev_call.stored
    /\ this_call.t_lookup - prev_call.entry_mtime <= TTL

\* the key the first call's entry would have
OldKey ==
    md5(prev_call.dir \o ":" \o ToString(prev_call.days) \o ":" \o prev_call.fp_end)

C9_CacheInvalidation ==
    (ConsecutivePair /\ this_call.fp_lookup # prev_call.fp_end) =>
        /\ this_call.key_lookup # OldKey
        /\ ~this_call.hit
        /\ this_call.scanned
        /\ this_call.computed_at > prev_call.n_end

C9_Witness ==
    /\ ConsecutivePair
    /\ this_call.fp_lookup # prev_call.fp_end
    /\ prev_call.fp_end # ""
    /\ prev_call.stored
    /\ OldKey \in DOMAIN cache_dir
    /\ ~Expired(cache_dir[OldKey], this_call.t_lookup)
    /\ this_call.scanned
    /\ this_call.events # prev_call.events

\* C10 as stated: a call never returns a cached event list that was
\* computed before a commit that had landed when the call was issued.
C10_SelfInvalidating ==
    (this_call.valid /\ this_call.hit) =>
        this_call.computed_at = this_call.n_lookup

\* C11 as stated: get returns a stored entry only while its age is strictly
\* less than the TTL; an entry whose age has reached the TTL is never
\* returned.
C11_TTLValidity ==
    (this_call.valid /\ this_call.hit) =>
        this_call.t_lookup - this_call.entry_mtime < TTL

\* C27 as stated: whatever commits land while scan_with_caching runs, a
\* cache hit returns exactly the events that a fresh scan of the repository
\* returns at the moment of the hit, when the repository has the
\* fingerprint of the entry's key.
C27_EntryMatchesFingerprint ==
    [][(pc = "get" /\ pc' = "idle" /\ just_done'.cur.hit) =>
           just_done'.cur.events =
               scan_git_history(config, history[Dir], repo_path, days_back, now)]_vars

\* the history access of both calls failed: the directory held no commit
\* from the first call's scan to the second call's lookup
AccessFailedTwice ==
    /\ ~prev_call.hit
    /\ prev_call.n_end = 0
    /\ this_call.n_lookup = 0

\* C28: when the history scan of a call failed, the empty list it returned
\* is stored like any other result: a later call for the same path and
\* window, made while the entry is within the TTL and the history access
\* still fails, finds the same fingerprint, is a hit, returns the empty list
\* and does not scan the history again.
C28_FailureCached ==
    (ConsecutivePair /\ AccessFailedTwice /\ EntryStillFresh) =>
        /\ this_call.fp_lookup = prev_call.fp_end
        /\ this_call.hit
        /\ ~this_call.scanned
        /\ this_call.events = <<>>

\* the second call is made later than the first and is a hit
C28_Witness ==
    /\ ConsecutivePair
    /\ AccessFailedTwice
    /\ prev_call.stored
    /\ prev_call.events = <<>>
    /\ this_call.t_lookup > prev_call.entry_mtime
    /\ this_call.t_lookup - prev_call.entry_mtime <= TTL
    /\ this_call.hit
    /\ ~this_call.scanned
    /\ this_call.events = <<>>

(***************************************************************************)
(* The severity fallback, checked under SpecClassify.                      *)
(***************************************************************************)
\* the commit produced an event and no lexicon word is in its message
FallbackCase ==
    /\ Scanned
    /\ Len(toil_found) = 1
    /\ LevelsHit = {}

\* C19: when no severity-lexicon word is a substring of the lower-cased
\* message, the severity is the fixed default of the event's final category:
\* HIGH for manual_fix, revert, pipeline_issue, MEDIUM for manual_deploy and
\* restart, and LOW for a category outside that table.
C19_SeverityFallback ==
    FallbackCase =>
        toil_found[1].severity =
            CASE toil_found[1].task_type \in {"manual_fix", "revert", "pipeline_issue"} -> "HIGH"
              [] toil_found[1].task_type \in {"manual_deploy", "restart"} -> "MEDIUM"
              [] OTHER -> "LOW"

\* the final category comes from the files and has another default than the
\* category of the message
C19_Witness ==
    /\ FallbackCase
    /\ detected_type = "revert"
    /\ toil_found[1].task_type = "manual_deploy"
    /\ toil_found[1].severity = "MEDIUM"

\* C20 as stated: an event whose final category is manual_fix and whose
\* message contains no severity-lexicon word gets severity MEDIUM.
C20_Original ==
    (FallbackCase /\ toil_found[1].task_type = "manual_fix") =>
        toil_found[1].severity = "MEDIUM"

\* C20 (amended): an event whose final category is manual_fix and whose
\* message contains no severity-lexicon word gets severity HIGH.
C20_ManualFixDefaultHigh ==
    (FallbackCase /\ toil_found[1].task_type = "manual_fix") =>
        toil_found[1].severity = "HIGH"

C20_Witness ==
    /\ FallbackCase
    /\ config = default_config
    /\ toil_found[1].task_type = "manual_fix"
    /\ toil_found[1].severity = "HIGH"

(***************************************************************************)
(* The passes of the classifier, checked under SpecClassify.               *)
(***************************************************************************)
\* the rules that hit a keyword of the message and fail the confirm pattern
\* or the exclusion
FailingAfterKeyword ==
    {i \in RuleIndexes \ Satisfying : KeywordHit(config.patterns[i], message_lower)}

\* C24: a rule that fails one of its conditions does not end the
\* message-based pass: a satisfying rule that has only failing rules before
\* it gives the category, and the pass ends with no category (and the scan
\* with no event) only when no rule of the Rule Set satisfies all three
\* conditions.
C24_FailingRuleDoesNotStop ==
    Scanned =>
        /\ \A i \in Satisfying :
              (\A j \in 1..(i - 1) : j \notin Satisfying)
                  => detected_type = config.patterns[i].name
        /\ (detected_type = None) => (Satisfying = {})
        /\ (toil_found = <<>>) => (Satisfying = {})

\* the first rule hits its keyword and fails, the second one satisfies all
\* three conditions and gives the category of the event
C24_Witness ==
    /\ Scanned
    /\ 1 \in FailingAfterKeyword
    /\ 2 \in Satisfying
    /\ detected_type = config.patterns[2].name
    /\ Len(toil_found) = 1

\* C25: without a message-based category there is no event, whatever the
\* changed files match; with a message-based category and file analysis
\* disabled, or no changed file, the category of the event is the
\* message-based category.
C25_FilePassGuarded ==
    Scanned =>
        /\ (detected_type = None) => (toil_found = <<>>)
        /\ (detected_type # None /\ (~include_file_analysis \/ commit.files = <<>>)) =>
              /\ Len(toil_found) = 1
              /\ toil_found[1].task_type = detected_type

\* file analysis is disabled and the changed files match a pattern of
\* another rule than the message-based one
C25_Witness ==
    /\ Scanned
    /\ ~include_file_analysis
    /\ detected_type # None
    /\ \E b \in FileMatching :
          /\ \A c \in FileMatching : b <= c
          /\ config.patterns[b].name # detected_type
    /\ Len(toil_found) = 1
    /\ toil_found[1].task_type = detected_type

(***************************************************************************)
(* ToilCache.get and ToilCache.set run by concurrent callers of            *)
(* scan_with_caching (two threads of parallel_scan_multiple_repos, or two  *)
(* processes sharing the cache directory), one file operation per step.    *)
(*                                                                         *)
(* The files follow POSIX: a directory entry names an inode, unlink        *)
(* removes the entry while open descriptors keep the inode, open(.., 'w')  *)
(* truncates the inode or creates one, and a write lands at the offset of  *)
(* the writer's own descriptor.  json.dump reaches the file in chunks of   *)
(* BufferSize characters.  An event list is a sequence of event ids.       *)
(***************************************************************************)
BufferSize == 3

Tasks == {"t1", "t2"}

EventIds == {"a", "b", "c", "d"}

\* the event lists a history scan may return while the repository changes
Payloads == {<<>>, <<"a", "b">>, <<"c", "d">>}

\* json.dump(data, f): the text written
json_dump(data) == "[" \o join(",", data) \o "]"

RECURSIVE ParseItems(_)
ParseItems(text) ==
    IF Len(text) = 1
    THEN [ok |-> text \in EventIds, data |-> <<text>>]
    ELSE IF Len(text) >= 3 /\ SubSeq(text, 1, 1) \in EventIds /\ SubSeq(text, 2, 2) = ","
    THEN LET rest == ParseItems(SubSeq(text, 3, Len(text)))
         IN  [ok |-> rest.ok, data |-> <<SubSeq(text, 1, 1)>> \o rest.data]
    ELSE [ok |-> FALSE, data |-> <<>>]

\* json.load(f): the value read, or ok = FALSE where json.load raises
json_load(text) ==
    IF Len(text) < 2 \/ SubSeq(text, 1, 1) # "[" \/ SubSeq(text, Len(text), Len(text)) # "]"
    THEN [ok |-> FALSE, data |-> <<>>]
    ELSE IF Len(text) = 2 THEN [ok |-> TRUE, data |-> <<>>]
    ELSE ParseItems(SubSeq(text, 2, Len(text) - 1))

RECURSIVE Zeros(_)
Zeros(n) == IF n <= 0 THEN "" ELSE "0" \o Zeros(n - 1)

\* write(fd, chunk) at offset off: the bytes at the offset are replaced, the
\* file grows as needed, a gap reads as zeros
WriteAt(content, off, chunk) ==
    LET padded == content \o Zeros(off - Len(content))
    IN  SubSeq(padded, 1, off) \o chunk
            \o SubSeq(padded, off + Len(chunk) + 1, Len(padded))

\* the next chunk json.dump flushes for text, from offset off
NextChunk(text, off) ==
    SubSeq(text, off + 1, IF off + BufferSize < Len(text) THEN off + BufferSize ELSE Len(text))

\* the keys the tasks can use: the repository has no commit during the run
TaskKey(path, days) == _get_cache_key(history[resolve(path)], path, days)

AllKeys == {TaskKey(p, d) : p \in RepoPaths, d \in Windows}

\* the key that may hold a file left by an earlier run
FirstKey == TaskKey("a", 7)

\* what an earlier run may have left under FirstKey: a complete entry or the
\* head of one whose writer was stopped
InitialPayload == <<"a", "b">>

InitialContents == {json_dump(InitialPayload), "[a,"}

NoTask == [pc |-> "idle", key |-> "", result |-> <<>>, fd |-> 0, off |-> 0,
           scanned |-> FALSE, opened |-> FALSE, alone |-> FALSE,
           replaced |-> None, outcome |-> "", ret |-> <<>>]

InitFiles ==
    /\ ClassifierIdle
    /\ CacheIdle
    /\ PoolIdle
    /\ GitIdle
    /\ \/ /\ inodes = <<>>
          /\ cache_files = [k \in AllKeys |-> 0]
       \/ \E text \in InitialContents, m \in {now - MaxTime, now - TTL, now} :
             /\ inodes = << [content |-> text, mtime |-> m] >>
             /\ cache_files = [k \in AllKeys |-> IF k = FirstKey THEN 1 ELSE 0]
    /\ task = [t \in Tasks |-> NoTask]
    /\ last_set = NoSet

\* the tasks, other than t, that are writing the file of key k lose the
\* file to a change made by t
Disturb(tk, t, k) ==
    [u \in Tasks |->
        IF u # t /\ tk[u].pc = "write" /\ tk[u].key = k
        THEN [tk[u] EXCEPT !.alone = FALSE] ELSE tk[u]]

\* an exception leaves ToilCache.get and scan_with_caching
Raise(t) == [task EXCEPT ![t].pc = "done", ![t].outcome = "raised"]

\* task t enters scan_with_caching(detector, path, days) and get computes
\* the key
Begin(t, path, days) ==
    /\ task[t].pc = "idle"
    /\ task' = [task EXCEPT ![t].pc = "exists", ![t].key = TaskKey(path, days)]
    /\ UNCHANGED <<cvars, gvars, kvars, pvars, cache_files, inodes, last_set>>

\* if not cache_file.exists(): return None
Exists(t) ==
    /\ task[t].pc = "exists"
    /\ task' = [task EXCEPT ![t].pc =
                   IF cache_files[task[t].key] = 0 THEN "scan" ELSE "stat"]
    /\ UNCHANGED <<cvars, gvars, kvars, pvars, cache_files, inodes, last_set>>

\* file_age = time.time() - cache_file.stat().st_mtime; stat raises
\* FileNotFoundError when the file is gone
Stat(t) ==
    /\ task[t].pc = "stat"
    /\ task' = IF cache_files[task[t].key] = 0 THEN Raise(t)
               ELSE [task EXCEPT ![t].pc =
                        IF Expired(inodes[cache_files[task[t].key]], now)
                        THEN "unlink_expired" ELSE "open_r"]
    /\ UNCHANGED <<cvars, gvars, kvars, pvars, cache_files, inodes, last_set>>

\* cache_file.unlink() of an expired entry, outside any try
UnlinkExpired(t) ==
    /\ task[t].pc = "unlink_expired"
    /\ IF cache_files[task[t].key] = 0
       THEN /\ task' = Raise(t)
            /\ UNCHANGED cache_files
       ELSE /\ cache_files' = [cache_files EXCEPT ![task[t].key] = 0]
            /\ task' = [Disturb(task, t, task[t].key) EXCEPT ![t].pc = "scan"]
    /\ UNCHANGED <<cvars, gvars, kvars, pvars, inodes, last_set>>

\* with open(cache_file, 'r') as f, inside the try
OpenRead(t) ==
    /\ task[t].pc = "open_r"
    /\ task' = IF cache_files[task[t].key] = 0
               THEN [task EXCEPT ![t].pc = "unlink_corrupt"]
               ELSE [task EXCEPT ![t].pc = "load", ![t].fd = cache_files[task[t].key]]
    /\ UNCHANGED <<cvars, gvars, kvars, pvars, cache_files, inodes, last_set>>

\* return json.load(f), inside the try
Load(t) ==
    /\ task[t].pc = "load"
    /\ LET parsed == json_load(inodes[task[t].fd].content)
       IN  task' = IF parsed.ok
                   THEN [task EXCEPT ![t].pc = "done", ![t].outcome = "hit",
                                     ![t].ret = parsed.data, ![t].fd = 0]
                   ELSE [task EXCEPT ![t].pc = "unlink_corrupt", ![t].fd = 0]
    /\ UNCHANGED <<cvars, gvars, kvars, pvars, cache_files, inodes, last_set>>

\* except: cache_file.unlink(); return None
UnlinkCorrupt(t) ==
    /\ task[t].pc = "unlink_corrupt"
    /\ IF cache_files[task[t].key] = 0
       THEN /\ task' = Raise(t)
            /\ UNCHANGED cache_files
       ELSE /\ cache_files' = [cache_files EXCEPT ![task[t].key] = 0]
            /\ task' = [Disturb(task, t, task[t].key) EXCEPT ![t].pc = "scan"]
    /\ UNCHANGED <<cvars, gvars, kvars, pvars, inodes, last_set>>

\* result = detector.scan_git_history(repo_path, days_back)
Scan(t, data) ==
    /\ task[t].pc = "scan"
    /\ task' = [task EXCEPT ![t].pc = "open_w", ![t].result = data,
                             ![t].scanned = TRUE]
    /\ UNCHANGED <<cvars, gvars, kvars, pvars, cache_files, inodes, last_set>>

\* variant: a failed open leaves set and scan_with_caching as an exception
set_except_Propagates(t) == Raise(t)

\* except Exception as e: print(...), after which scan_with_caching returns
\* result
set_except(t) ==
    [task EXCEPT ![t].pc = "done", ![t].outcome = "scanned", ![t].ret = task[t].result]

\* with open(cache_file, 'w') as f, inside the try of set: the open fails, or
\* it truncates the file, or it creates it
OpenWrite(t) ==
    /\ task[t].pc = "open_w"
    /\ \E ok \in BOOLEAN :
        LET k == task[t].key
            old == cache_files[k]
        IN  IF ~ok
            THEN /\ task' = set_except(t)
                 /\ UNCHANGED <<cache_files, inodes>>
            ELSE /\ inodes' = IF old = 0
                              THEN Append(inodes, [content |-> "", mtime |-> now])
                              ELSE [inodes EXCEPT ![old] = [content |-> "", mtime |-> now]]
                 /\ cache_files' = IF old = 0
                                   THEN [cache_files EXCEPT ![k] = Len(inodes) + 1]
                                   ELSE cache_files
                 /\ task' = [Disturb(task, t, k) EXCEPT
                                ![t].pc = "write",
                                ![t].fd = IF old = 0 THEN Len(inodes) + 1 ELSE old,
                                ![t].off = 0,
                                ![t].opened = TRUE,
                                ![t].alone = TRUE,
                                ![t].replaced = IF old = 0 THEN None
                                                ELSE inodes[old].content]
    /\ UNCHANGED <<cvars, gvars, kvars, pvars, last_set>>

\* json.dump(data, f): one chunk reaches the file; after the last one the
\* file is closed and scan_with_caching returns result
Write(t) ==
    /\ task[t].pc = "write"
    /\ LET text == json_dump(task[t].result)
           chunk == NextChunk(text, task[t].off)
           last == task[t].off + Len(chunk) >= Len(text)
           k == task[t].key
       IN  /\ inodes' = [inodes EXCEPT ![task[t].fd] =
                            [content |-> WriteAt(@.content, task[t].off, chunk),
                             mtime |-> now]]
           /\ task' = [Disturb(task, t, k) EXCEPT
                          ![t].off = @ + Len(chunk),
                          ![t].pc = IF last THEN "done" ELSE "write",
                          ![t].outcome = IF last THEN "scanned" ELSE "",
                          ![t].ret = IF last THEN task[t].result ELSE <<>>,
                          ![t].fd = IF last THEN 0 ELSE @]
           /\ last_set' = IF last
                          THEN [valid |-> TRUE, task |-> t, key |-> k,
                                payload |-> task[t].result,
                                content |-> IF cache_files[k] = 0 THEN None
                                            ELSE inodes'[cache_files[k]].content,
                                alone |-> task[t].alone,
                                replaced |-> task[t].replaced]
                          ELSE last_set
    /\ UNCHANGED <<cvars, gvars, kvars, pvars, cache_files>>

NextFiles ==
    \/ \E t \in Tasks, path \in RepoPaths, days \in Windows : Begin(t, path, days)
    \/ \E t \in Tasks : Exists(t)
    \/ \E t \in Tasks : Stat(t)
    \/ \E t \in Tasks : UnlinkExpired(t)
    \/ \E t \in Tasks : OpenRead(t)
    \/ \E t \in Tasks : Load(t)
    \/ \E t \in Tasks : UnlinkCorrupt(t)
    \/ \E t \in Tasks, data \in Payloads : Scan(t, data)
    \/ \E t \in Tasks : OpenWrite(t)
    \/ \E t \in Tasks : Write(t)

SpecFiles == InitFiles /\ [][NextFiles]_vars

(***************************************************************************)
(* Properties of the concurrent cache, checked under SpecFiles.            *)
(***************************************************************************)
\* the event lists handed to a set that opened the file, and the list an
\* earlier run stored
StoredPayloads ==
    {InitialPayload} \cup {task[u].result : u \in {v \in Tasks : task[v].opened}}

\* the text in the file of key k, None when there is no file
FileText(k) == IF cache_files[k] = 0 THEN None ELSE inodes[cache_files[k]].content

\* C12 as stated: whatever the state of the entry and however the gets and
\* sets of the tasks interleave, no task ends with an exception, and a task
\* that ends with a hit returns a complete payload that was stored.
C12_ReadFailuresContained ==
    \A t \in Tasks :
        /\ task[t].outcome # "raised"
        /\ task[t].outcome = "hit" => task[t].ret \in StoredPayloads

\* C13: a task whose history scan ran ends by returning the scanned list
\* unchanged, without an exception, also when set could not open the file;
\* and a set that wrote its chunks with no other task touching the file
\* leaves the file holding its whole payload, whatever was there before.
C13_WriteFailureContained ==
    /\ \A t \in Tasks :
          (task[t].pc = "done" /\ task[t].scanned) =>
              /\ task[t].outcome = "scanned"
              /\ task[t].ret = task[t].result
    /\ (last_set.valid /\ last_set.alone) =>
          last_set.content = json_dump(last_set.payload)

\* the set of one task could not open the file and the task returned its
\* list, leaving the entry the other task had stored
C13_Witness ==
    \E t \in Tasks :
        /\ task[t].pc = "done"
        /\ task[t].scanned
        /\ ~task[t].opened
        /\ task[t].outcome = "scanned"
        /\ task[t].ret = task[t].result
        /\ task[t].result # <<>>
        /\ last_set.valid
        /\ last_set.key = task[t].key
        /\ FileText(task[t].key) = json_dump(last_set.payload)
        /\ last_set.payload # task[t].result

\* C17 as stated: once the sets of both tasks have written their last chunk,
\* the file of each key they used holds exactly the whole payload of one of
\* the tasks that used that key.
C17_ConcurrentWritesSafe ==
    (\A t \in Tasks : task[t].pc = "done" /\ task[t].opened) =>
        \A t \in Tasks :
            FileText(task[t].key) \in
                {json_dump(task[u].result) : u \in {v \in Tasks : task[v].key = task[t].key}}

(***************************************************************************)
(* The multi-repository scans: ToilDetector.scan_multiple_repos and        *)
(* ToilPerformanceOptimizer.parallel_scan_multiple_repos.  Every path is   *)
(* submitted to a ThreadPoolExecutor, whose workers take the tasks in      *)
(* submission order, and the caller stores each result as its future       *)
(* completes.                                                              *)
(***************************************************************************)
\* ThreadPoolExecutor(max_workers=4), and the default of max_workers
DefaultWorkers == 4

\* the widths a configuration may give the optimizer
ConfiguredWorkers == {2, DefaultWorkers}

\* one path more than the default pool is wide
MaxPaths == DefaultWorkers + 1

\* /srv/a holds a toil commit, /srv/b holds none, /x is not a repository
PoolPaths == {"a", "b", "/x"}

PoolHistory ==
    [d \in {resolve(p) : p \in PoolPaths} |->
        IF d = "/srv/a"
        THEN << [hash |-> "def5678", message |-> "Add feature 2", date |-> "day0",
                 author |-> "dev", files |-> <<"README.md">>, cdate |-> 0],
                [hash |-> "abc1234", message |-> "hotfix 42", date |-> "day0",
                 author |-> "dev", files |-> <<>>, cdate |-> 0] >>
        ELSE IF d = "/srv/b"
        THEN << [hash |-> "def5678", message |-> "Add feature 2", date |-> "day0",
                 author |-> "dev", files |-> <<"README.md">>, cdate |-> 0] >>
        ELSE <<>>]

PoolDays == 30

\* scan_git_history(repo, days_back) for each path of the pool: the
\* repositories, the Rule Set and the clock do not change while a
\* multi-repository scan runs
PoolScan ==
    [p \in PoolPaths |->
        scan_git_history(default_config, PoolHistory[resolve(p)], p, PoolDays, 0)]

RECURSIVE PathLists(_)
PathLists(n) ==
    IF n = 0 THEN {<<>>}
    ELSE PathLists(n - 1)
            \cup {Append(l, p) : l \in {m \in PathLists(n - 1) : Len(m) = n - 1},
                                 p \in PoolPaths}

InitPool ==
    /\ ClassifierIdle
    /\ FilesIdle
    /\ GitIdle
    /\ now = 0
    /\ history = PoolHistory
    /\ cache_dir = <<>>
    /\ pc = "idle"
    /\ repo_path = ""
    /\ days_back = 0
    /\ result = <<>>
    /\ frame = NoFrame
    /\ just_done = [cur |-> NoCall, prev |-> Kept(NoCall)]
    /\ ncalls = 0
    /\ repo_list \in PathLists(MaxPaths)
    /\ \/ variant = "detector" /\ max_workers = DefaultWorkers
       \/ variant = "optimizer" /\ max_workers \in ConfiguredWorkers
    /\ futures = <<>>
    /\ results = <<>>
    /\ pool_pc = "start"

Running(fs) == {i \in 1..Len(fs) : fs[i].state = "running"}

\* variant: a pending task starts whether or not a worker is free
worker_free_Unbounded(fs, width) == TRUE

\* a worker of the pool is free
worker_free(fs, width) == Cardinality(Running(fs)) < width

\* variant: the result is stored under the path of the next future
future_to_repo_Shifted(fs, i) == fs[IF i < Len(fs) THEN i + 1 ELSE 1].repo

\* future_to_repo[future]
future_to_repo(fs, i) == fs[i].repo

\* results[repo] = value, for the future at position i
Store(i, value) ==
    LET repo == future_to_repo(futures, i) IN
    results' = [p \in DOMAIN results \cup {repo} |->
                   IF p = repo THEN value ELSE results[p]]

\* future_to_repo = {executor.submit(...): repo for repo in repo_paths}
Submit ==
    /\ pool_pc = "start"
    /\ futures' = [i \in 1..Len(repo_list) |->
                      [repo |-> repo_list[i], state |-> "pending", failed |-> FALSE]]
    /\ pool_pc' = "collect"
    /\ UNCHANGED <<cvars, gvars, kvars, fvars, repo_list, variant, max_workers, results>>

\* a worker takes the oldest pending task
StartTask(i) ==
    /\ pool_pc = "collect"
    /\ futures[i].state = "pending"
    /\ \A j \in 1..(i - 1) : futures[j].state # "pending"
    /\ worker_free(futures, max_workers)
    /\ futures' = [futures EXCEPT ![i].state = "running"]
    /\ UNCHANGED <<cvars, gvars, kvars, fvars, repo_list, variant, max_workers, results, pool_pc>>

\* scan_multiple_repos: the task is scan_git_history, which returns [] when
\* git fails; as_completed hands the future to the caller, which stores
\* future.result() (results are stored in completion order)
FinishDetectorTask(i) ==
    /\ pool_pc = "collect"
    /\ variant = "detector"
    /\ futures[i].state = "running"
    /\ LET p == futures[i].repo IN
       /\ futures' = [futures EXCEPT ![i].state = "finished",
                                     ![i].failed = ~git_ok(history[resolve(p)])]
       /\ Store(i, PoolScan[p])
    /\ UNCHANGED <<cvars, gvars, kvars, fvars, repo_list, variant, max_workers, pool_pc>>

\* parallel_scan_multiple_repos: the task is scan_repo, which returns what
\* scan_with_caching returns, or [] when scan_with_caching raises;
\* as_completed hands the future to the caller, which stores its result
FinishOptimizerTask(i) ==
    /\ pool_pc = "collect"
    /\ variant = "optimizer"
    /\ futures[i].state = "running"
    /\ \E raised \in BOOLEAN :
        LET p == futures[i].repo
            cache_key == _get_cache_key(history[resolve(p)], p, PoolDays)
            hit == cache_key \in DOMAIN cache_dir /\ ~Expired(cache_dir[cache_key], now)
        IN  IF raised
            THEN /\ futures' = [futures EXCEPT ![i].state = "finished",
                                               ![i].failed = TRUE]
                 /\ Store(i, <<>>)
                 /\ UNCHANGED cache_dir
            ELSE IF hit
            THEN /\ futures' = [futures EXCEPT
                                   ![i].state = "finished",
                                   ![i].failed = ~git_ok(history[resolve(p)])]
                 /\ Store(i, cache_dir[cache_key].data)
                 /\ UNCHANGED cache_dir
            ELSE LET scanned == PoolScan[p]
                 IN  /\ futures' = [futures EXCEPT
                                       ![i].state = "finished",
                                       ![i].failed = ~git_ok(history[resolve(p)])]
                     /\ Store(i, scanned)
                     /\ cache_dir' = [k \in DOMAIN cache_dir \cup {cache_key} |->
                                         IF k = cache_key
                                         THEN [data |-> scanned, mtime |-> now,
                                               computed_at |-> Len(history[resolve(p)])]
                                         ELSE cache_dir[k]]
    /\ UNCHANGED <<cvars, gvars, fvars, now, history, pc, repo_path, days_back, result, frame,
                   just_done, ncalls, repo_list, variant, max_workers, pool_pc>>

\* variant: the caller returns without waiting for the tasks
ReturnResults_Early ==
    /\ pool_pc = "collect"
    /\ pool_pc' = "returned"
    /\ UNCHANGED <<cvars, gvars, kvars, fvars, repo_list, variant, max_workers, futures, results>>

\* return results
ReturnResults ==
    /\ pool_pc = "collect"
    /\ \A i \in 1..Len(futures) : futures[i].state = "finished"
    /\ pool_pc' = "returned"
    /\ UNCHANGED <<cvars, gvars, kvars, fvars, repo_list, variant, max_workers, futures, results>>

NextPool ==
    \/ Submit
    \/ \E i \in 1..Len(futures) : StartTask(i)
    \/ \E i \in 1..Len(futures) : FinishDetectorTask(i)
    \/ \E i \in 1..Len(futures) : FinishOptimizerTask(i)
    \/ ReturnResults

SpecPool == InitPool /\ [][NextPool]_vars

(***************************************************************************)
(* Properties of the multi-repository scans, checked under SpecPool.       *)
(***************************************************************************)
Requested == {repo_list[i] : i \in 1..Len(repo_list)}

\* the paths with a task whose scan failed: git failed, or scan_with_caching
\* raised
FailedPaths == {futures[i].repo : i \in {j \in 1..Len(futures) : futures[j].failed}}

\* the events of a path's own history scan
OwnEvents(p) == scan_git_history(config, history[resolve(p)], p, PoolDays, now)

\* C14: the returned mapping has exactly the requested paths as its keys,
\* and the entry of every path none of whose scans failed holds the events
\* of that path's own scan, whichever other paths failed.
C14_MultiRepoIsolation ==
    pool_pc = "returned" =>
        /\ DOMAIN results = Requested
        /\ \A p \in Requested \ FailedPaths : results[p] = OwnEvents(p)

\* more paths than workers, a path that is no repository, a task that
\* raised, and a sibling entry holding its events
C14_Witness ==
    /\ pool_pc = "returned"
    /\ Len(repo_list) = MaxPaths
    /\ Requested = PoolPaths
    /\ \E i \in 1..Len(futures) :
          futures[i].failed /\ git_ok(history[resolve(futures[i].repo)])
    /\ "/x" \in FailedPaths
    /\ "a" \notin FailedPaths
    /\ results["a"] # <<>>
    /\ results["a"] = OwnEvents("a")

\* C15 as stated: in the returned mapping the entry of a path whose history
\* access failed differs from the entry of a path whose scan succeeded, in
\* particular from one that found no toil event.
C15_FailureDistinguishable ==
    pool_pc = "returned" =>
        \A p \in Requested, q \in Requested :
            (~git_ok(history[resolve(p)]) /\ git_ok(history[resolve(q)]))
                => results[p] # results[q]

\* C18: the number of scan tasks running at the same time never exceeds the
\* width of the pool, however many paths were requested.
C18_BoundedConcurrency == Cardinality(Running(futures)) <= max_workers

\* the default pool is full and a task waits
C18_Witness ==
    /\ max_workers = DefaultWorkers
    /\ Cardinality(Running(futures)) = DefaultWorkers
    /\ \E i \in 1..Len(futures) : futures[i].state = "pending"

(***************************************************************************)
(* Termination of the multi-repository scans.  The executor's workers take *)
(* queued tasks whenever they are idle, every scan task that has started   *)
(* returns, and the caller consumes the completed futures and leaves the   *)
(* with block when all of them are done.                                   *)
(***************************************************************************)
PoolFairness ==
    /\ WF_vars(Submit)
    /\ \A i \in 1..MaxPaths :
          /\ WF_vars(i \in DOMAIN futures /\ StartTask(i))
          /\ WF_vars(i \in DOMAIN futures /\ FinishDetectorTask(i))
          /\ WF_vars(i \in DOMAIN futures /\ FinishOptimizerTask(i))
    /\ WF_vars(ReturnResults)

SpecPoolLive == InitPool /\ [][NextPool]_vars /\ PoolFairness

\* every submitted task has completed and its result is in the mapping
AllWorkDone ==
    /\ Len(futures) = Len(repo_list)
    /\ \A i \in 1..Len(futures) :
          /\ futures[i].repo = repo_list[i]
          /\ futures[i].state = "finished"
          /\ futures[i].repo \in DOMAIN results

Pending == {i \in 1..Len(futures) : futures[i].state = "pending"}

\* a worker can take the oldest queued task
OldestCanStart ==
    \E i \in Pending : (\A j \in Pending : i <= j) /\ ENABLED StartTask(i)

\* C30: the multi-repository scan eventually returns; when it has returned,
\* every submitted task has completed and its result is in the mapping; and
\* while it collects, whenever a task is queued and fewer tasks are running
\* than the pool has workers, the oldest queued task can start, whatever
\* the running tasks are doing.
C30_Termination ==
    /\ <>(pool_pc = "returned")
    /\ [](pool_pc = "returned" => AllWorkDone)
    /\ []((pool_pc = "collect" /\ Pending # {}
              /\ Cardinality(Running(futures)) < max_workers) => OldestCanStart)

\* the scan has returned after tasks had to queue behind a pool of two
\* workers, with a failed task among them
C30_Witness ==
    /\ pool_pc = "returned"
    /\ variant = "optimizer"
    /\ max_workers < Len(repo_list)
    /\ AllWorkDone
    /\ \E i \in 1..Len(futures) : futures[i].failed
    /\ \E p \in DOMAIN results : results[p] # <<>>

(***************************************************************************)
(* Loading a configuration file and scanning with it.  A rule's confirm    *)
(* pattern may be text that re cannot compile (an unbalanced parenthesis); *)
(* re.search compiles its pattern when it is called and raises re.error.   *)
(***************************************************************************)
Unparseable == [t |-> "bad", s |-> "("]

re_compiles(re) == \A k \in 1..Len(re) : re[k].t # "bad"

\* position of the first pattern of the list that does not compile
FirstInvalid(regex) ==
    IF \A i \in 1..Len(regex) : re_compiles(regex[i]) THEN Len(regex) + 1
    ELSE CHOOSE i \in 1..Len(regex) :
             /\ ~re_compiles(regex[i])
             /\ \A j \in 1..(i - 1) : re_compiles(regex[j])

\* any(re.search(pattern, message_lower) for pattern in regex_patterns)
\* raises: the keyword check passed and no pattern before the first invalid
\* one matched
rule_raises(rule, lowered) ==
    /\ KeywordHit(rule, lowered)
    /\ FirstInvalid(rule.regex) <= Len(rule.regex)
    /\ \A i \in 1..(FirstInvalid(rule.regex) - 1) :
          ~re_search(rule.regex[i], lowered)

\* the patterns of a rule that a non-raising evaluation can reach
Evaluated(rule) ==
    IF FirstInvalid(rule.regex) > Len(rule.regex) THEN rule
    ELSE [rule EXCEPT !.regex = SubSeq(@, 1, FirstInvalid(rule.regex) - 1)]

ReError == "<re.error>"

\* the loop of _analyze_commit_message when a pattern may fail to compile
RECURSIVE MessageLoopRaising(_, _, _)
MessageLoopRaising(patterns, i, lowered) ==
    IF i > Len(patterns) THEN None
    ELSE IF rule_raises(patterns[i], lowered) THEN ReError
    ELSE IF /\ KeywordHit(patterns[i], lowered)
            /\ \/ patterns[i].regex = <<>>
               \/ RegexConfirmed(Evaluated(patterns[i]), lowered)
            /\ ~Excluded(patterns[i], lowered)
         THEN patterns[i].name
    ELSE MessageLoopRaising(patterns, i + 1, lowered)

ValidPattern == <<Lit("a"), AnyStar, Lit("b")>>

InvalidPattern == <<Lit("a"), Unparseable>>

ConfigRegexes ==
    {<<>>, <<ValidPattern>>, <<InvalidPattern>>,
     <<ValidPattern, InvalidPattern>>, <<InvalidPattern, ValidPattern>>}

ConfigRules(n) ==
    { Rule(n, k, r, <<>>, <<>>) : k \in {<<"a">>, <<"b">>}, r \in ConfigRegexes }

\* the severity lexicons a file may give: none (the key is absent, written
\* <<>>), or levels under names of the author's choosing
ConfigSeverities == {
    <<>>,
    << [level |-> "critical", keywords |-> <<"b">>],
       [level |-> "low", keywords |-> <<"c">>] >> }

\* the configuration files: a file that is not YAML, or patterns of one or
\* two rules with or without a severity lexicon
ConfigFiles ==
    {[yaml_ok |-> FALSE, patterns |-> <<>>, severity |-> <<>>]}
        \cup {[yaml_ok |-> TRUE, patterns |-> <<r>>, severity |-> sv] :
                 r \in ConfigRules(RuleNames[1]), sv \in ConfigSeverities}
        \cup {[yaml_ok |-> TRUE, patterns |-> <<r, q>>, severity |-> sv] :
                 r \in ConfigRules(RuleNames[1]), q \in ConfigRules(RuleNames[2]),
                 sv \in ConfigSeverities}

NoConfig == [patterns |-> <<>>, severity |-> <<>>]

InitConfig ==
    /\ config = NoConfig
    /\ \E m \in SynthMessages : commit = Commit(m, <<>>)
    /\ include_file_analysis = TRUE
    /\ detected_type = None
    /\ toil_found = <<>>
    /\ phase = "unloaded"
    /\ CacheIdle
    /\ FilesIdle
    /\ PoolIdle
    /\ GitIdle

\* ToilDetector.__init__: self.config = self._load_config(config_path);
\* yaml.safe_load raises on a file that is not YAML, and nothing else is
\* checked
LoadConfig ==
    /\ phase = "unloaded"
    /\ \E f \in ConfigFiles :
          IF f.yaml_ok
          THEN /\ config' = _load_config(f.patterns,
                                          IF f.severity = <<>> THEN None ELSE f.severity)
               /\ phase' = "loaded"
          ELSE /\ phase' = "rejected"
               /\ UNCHANGED config
    /\ UNCHANGED <<commit, include_file_analysis, detected_type, toil_found,
                   gvars, kvars, fvars, pvars>>

\* scan_git_history over the commit: an exception of the analysis is caught
\* by the except of scan_git_history, which returns []
ScanConfigured ==
    /\ phase = "loaded"
    /\ LET found == MessageLoopRaising(config.patterns, 1, lower(commit.message))
       IN  /\ detected_type' = found
           /\ toil_found' =
                 IF found \in {None, ReError} THEN <<>>
                 ELSE << [date |-> commit.date,
                          repo_path |-> RepoPath,
                          task_type |-> found,
                          description |-> commit.message,
                          severity |-> _assess_severity(config, commit.message, found),
                          author |-> commit.author,
                          files_changed |-> join(",", commit.files)] >>
    /\ phase' = "scanned"
    /\ UNCHANGED <<config, commit, include_file_analysis, gvars, kvars, fvars, pvars>>

NextConfig == LoadConfig \/ ScanConfigured

SpecConfig == InitConfig /\ [][NextConfig]_vars

\* every confirm pattern of every rule compiles
ConfigValid(cfg) ==
    \A i \in 1..Len(cfg.patterns) :
        \A k \in 1..Len(cfg.patterns[i].regex) : re_compiles(cfg.patterns[i].regex[k])

\* C16 as stated: a Rule Set with an invalid rule is rejected when it is
\* loaded; no configuration in use, and no scan, has a rule whose pattern
\* does not compile.
C16_ConfigFailFast ==
    phase \in {"loaded", "scanned"} => ConfigValid(config)

(***************************************************************************)
(* scan_git_history from the git command to the events: the text that      *)
(* git log --pretty=format:%h|%s|%ad|%an --date=short --name-only prints,  *)
(* _parse_git_output on that text, and the classification of the parsed    *)
(* commits.                                                                *)
(*                                                                         *)
(* git prints a commit as its header line followed, when the commit        *)
(* touched files, by one line per file; commits are separated by a line    *)
(* terminator, so a blank line follows a file list and nothing follows a   *)
(* header without files.                                                   *)
(***************************************************************************)
MaxCommits == 2

\* %h|%s|%ad|%an
pretty(c) == c.hash \o "|" \o c.message \o "|" \o c.date \o "|" \o c.author

\* --name-only
name_only(files) == IF files = <<>> THEN "" ELSE "\n" \o join("\n", files) \o "\n"

RECURSIVE git_log_stdout(_)
git_log_stdout(cs) ==
    IF cs = <<>> THEN ""
    ELSE IF Len(cs) = 1 THEN pretty(cs[1]) \o name_only(cs[1].files)
    ELSE pretty(cs[1]) \o name_only(cs[1].files) \o "\n" \o git_log_stdout(Tail(cs))

\* str.split(sep, maxsplit) for a one-character separator; maxsplit -1
\* splits at every occurrence
RECURSIVE split(_, _, _)
split(text, sep, maxsplit) ==
    LET hits == {i \in 1..Len(text) : SubSeq(text, i, i) = sep} IN
    IF maxsplit = 0 \/ hits = {} THEN <<text>>
    ELSE LET i == CHOOSE h \in hits : \A g \in hits : h <= g IN
         <<SubSeq(text, 1, i - 1)>>
             \o split(SubSeq(text, i + 1, Len(text)), sep, maxsplit - 1)

Whitespace == {" ", "\t", "\n", "\r"}

\* str.strip()
RECURSIVE strip(_)
strip(text) ==
    IF text = "" THEN ""
    ELSE IF SubSeq(text, 1, 1) \in Whitespace THEN strip(SubSeq(text, 2, Len(text)))
    ELSE IF SubSeq(text, Len(text), Len(text)) \in Whitespace
         THEN strip(SubSeq(text, 1, Len(text) - 1))
    ELSE text

\* the loop of _parse_git_output; current_commit is <<>> for the empty
\* dictionary and <<c>> for the commit c being collected
RECURSIVE ParseLines(_, _, _)
ParseLines(lines, parsed, current_commit) ==
    IF lines = <<>>
    THEN (IF current_commit # <<>> THEN parsed \o current_commit ELSE parsed)
    ELSE LET line == Head(lines)
             following == Tail(lines) IN
         IF strip(line) = ""
         THEN (IF current_commit # <<>>
               THEN ParseLines(following, parsed \o current_commit, <<>>)
               ELSE ParseLines(following, parsed, current_commit))
         ELSE IF Contains(line, "|")
         THEN LET fields == split(line, "|", 3) IN
              IF Len(fields) >= 4
              THEN ParseLines(following, parsed,
                              << [hash |-> fields[1], message |-> fields[2],
                                  date |-> fields[3], author |-> fields[4],
                                  files |-> <<>>] >>)
              ELSE ParseLines(following, parsed, current_commit)
         ELSE IF current_commit # <<>>
         THEN ParseLines(following, parsed,
                         << [current_commit[1] EXCEPT !.files = Append(@, strip(line))] >>)
         ELSE ParseLines(following, parsed, current_commit)

_parse_git_output(output) == ParseLines(split(output, "\n", -1), <<>>, <<>>)

\* the commits a repository may hold: subjects with and without the
\* character |, one that satisfies two rules, and file lists that are
\* empty or not
ParseMessages == {
    "hotfix 42",
    "Add feature 2",
    "hotfix 42 | db",
    "db | hotfix 42",
    "deploy production pipeline failed" }

ParseFiles == {<<>>, <<"README.md">>, <<"main.tf", "ci.yml">>}

Hashes == <<"abc1234", "def5678", "0a1b2c3", "4d5e6f7">>

\* the histories of up to n commits, oldest first
RECURSIVE ParseHistories(_)
ParseHistories(n) ==
    IF n = 0 THEN {<<>>}
    ELSE ParseHistories(n - 1)
            \cup {Append(h, [hash |-> Hashes[n], message |-> m, date |-> "2024-01-15",
                             author |-> "dev", files |-> f, cdate |-> 0]) :
                     h \in {g \in ParseHistories(n - 1) : Len(g) = n - 1},
                     m \in ParseMessages, f \in ParseFiles}

InitParse ==
    /\ config = default_config
    /\ commit = Commit("", <<>>)
    /\ include_file_analysis = TRUE
    /\ detected_type = None
    /\ toil_found = <<>>
    /\ phase = "git"
    /\ now = 0
    /\ \E h \in ParseHistories(MaxCommits) : history = [d \in {RepoPath} |-> h]
    /\ cache_dir = <<>>
    /\ pc = "idle"
    /\ repo_path = RepoPath
    /\ days_back = PoolDays
    /\ result = <<>>
    /\ frame = NoFrame
    /\ just_done = [cur |-> NoCall, prev |-> Kept(NoCall)]
    /\ ncalls = 0
    /\ FilesIdle
    /\ PoolIdle
    /\ GitIdle

\* what the history provider holds for the window, newest first
Provided == git_log(history[RepoPath], days_back, now)

\* result = subprocess.run(["git", "log", ...]); a non-zero return code
\* raises, and the except of scan_git_history returns []
RunGitLog ==
    /\ phase = "git"
    /\ IF git_ok(history[RepoPath])
       THEN /\ stdout' = git_log_stdout(Provided)
            /\ phase' = "parse"
       ELSE /\ stdout' = ""
            /\ phase' = "scanned"
    /\ UNCHANGED <<config, commit, include_file_analysis, detected_type, toil_found,
                   commits, worktree, toil_events, returned, kvars, fvars, pvars>>

\* commits = self._parse_git_output(result.stdout)
ParseGitOutput ==
    /\ phase = "parse"
    /\ commits' = _parse_git_output(stdout)
    /\ phase' = "classify"
    /\ UNCHANGED <<config, commit, include_file_analysis, detected_type, toil_found,
                   stdout, worktree, toil_events, returned, kvars, fvars, pvars>>

\* for commit in commits: ... ; return toil_found
ClassifyCommits ==
    /\ phase = "classify"
    /\ toil_found' = ScanCommits(config, resolve(repo_path), commits, include_file_analysis)
    /\ phase' = "scanned"
    /\ UNCHANGED <<config, commit, include_file_analysis, detected_type,
                   gvars, kvars, fvars, pvars>>

NextParse == RunGitLog \/ ParseGitOutput \/ ClassifyCommits

SpecParse == InitParse /\ [][NextParse]_vars

(***************************************************************************)
(* Properties of the parsed history, checked under SpecParse.              *)
(***************************************************************************)
Classified == phase = "scanned" /\ git_ok(history[RepoPath])

\* C21 as stated: every emitted event carries the message of a commit of
\* the history provider, unmodified, as its description, and that commit's
\* changed-file paths joined by commas as its files summary.
C21_EventCarriesCommit ==
    Classified =>
        \A e \in 1..Len(toil_found) :
            \E i \in 1..Len(Provided) :
                /\ toil_found[e].description = Provided[i].message
                /\ toil_found[e].files_changed = join(",", Provided[i].files)

\* an increasing choice of positions: f maps 1..m into positions, in order
Increasing(f, m) == \A a \in 1..m, b \in 1..m : a < b => f[a] < f[b]

\* the event was made from the parsed commit
EventOf(e, c) ==
    /\ e.description = c.message
    /\ e.date = c.date
    /\ e.author = c.author
    /\ e.files_changed = join(",", c.files)

\* C23: the events are made from distinct parsed commits, at most one event
\* per commit, in the order of the commits, and the parsed commits are
\* commits of the history provider in the provider's order: the returned
\* event list is a subsequence of the commit sequence.
C23_AtMostOneEventPerCommit ==
    Classified =>
        /\ \E f \in [1..Len(toil_found) -> 1..Len(commits)] :
              /\ Increasing(f, Len(toil_found))
              /\ \A e \in 1..Len(toil_found) : EventOf(toil_found[e], commits[f[e]])
        /\ \E g \in [1..Len(commits) -> 1..Len(Provided)] :
              /\ Increasing(g, Len(commits))
              /\ \A k \in 1..Len(commits) : commits[k].hash = Provided[g[k]].hash

\* two commits, the newer one satisfying two rules by its message and a
\* third rule by its files, the older one yielding no event: one event
C23_Witness ==
    /\ Classified
    /\ Len(commits) = 2
    /\ Len(toil_found) = 1
    /\ Cardinality({r \in 1..Len(config.patterns) :
                       RuleSatisfied(config.patterns[r], lower(commits[1].message))}) >= 2
    /\ Cardinality({r \in 1..Len(config.patterns) :
                       FilesHit(config.patterns[r], commits[1].files)}) >= 2
    /\ EventOf(toil_found[1], commits[1])
    /\ _analyze_commit_message(config, commits[2].message) = None

\* result.stdout.split('\n')
OutputLines == split(stdout, "\n", -1)

\* a line with at least four fields separated by |
IsHeader(line) == Len(split(line, "|", -1)) >= 4

HeaderPositions == {i \in 1..Len(OutputLines) : IsHeader(OutputLines[i])}

\* position of the k-th header line
NthHeader(k) ==
    CHOOSE i \in HeaderPositions : Cardinality({j \in HeaderPositions : j <= i}) = k

\* the lines after position i up to the next blank line or header
FileLinesAfter(i) ==
    LET stops == {j \in (i + 1)..Len(OutputLines) :
                     strip(OutputLines[j]) = "" \/ IsHeader(OutputLines[j])}
        stop == IF stops = {} THEN Len(OutputLines) + 1
                ELSE CHOOSE j \in stops : \A h \in stops : j <= h
    IN  SubSeq(OutputLines, i + 1, stop - 1)

\* C29 as stated: the parsed commits are the header lines of the output, one
\* commit per header line in output order, each with the file lines that
\* follow its header; no header line is lost.
C29_OneCommitPerHeader ==
    phase \in {"classify", "scanned"} =>
        /\ Len(commits) = Cardinality(HeaderPositions)
        /\ \A k \in 1..Len(commits) :
              /\ commits[k].hash = split(OutputLines[NthHeader(k)], "|", -1)[1]
              /\ commits[k].files = FileLinesAfter(NthHeader(k))

(***************************************************************************)
(* Toil tracker v0.1.0: scan_repo of toil_tracker/cli.py, which reads      *)
(* git log --pretty=format:%h|%s|%ad --date=short, matches keywords only,  *)
(* and inserts one row per detected commit into table toil_events of the   *)
(* database file.  The table outlives the call: a later scan with the same *)
(* database adds to it.                                                    *)
(***************************************************************************)
MaxScans == 2

\* patterns of scan_repo, in dictionary order
CliPatterns == <<
    [name |-> "manual_deploy", keywords |-> <<"deploy", "deployment", "production deploy">>],
    [name |-> "manual_fix", keywords |-> <<"fix", "hotfix", "emergency", "manual">>],
    [name |-> "revert", keywords |-> <<"revert", "rollback", "backed out">>],
    [name |-> "env_setup", keywords |-> <<"env", "environment", "setup", "config">>],
    [name |-> "restart", keywords |-> <<"restart", "reboot", "restart service">>] >>

\* for task_type, keywords in patterns.items(): ... break
RECURSIVE CliLoop(_, _)
CliLoop(i, lowered) ==
    IF i > Len(CliPatterns) THEN None
    ELSE IF \E k \in 1..Len(CliPatterns[i].keywords) :
                Contains(lowered, CliPatterns[i].keywords[k])
         THEN CliPatterns[i].name
    ELSE CliLoop(i + 1, lowered)

\* the severity of scan_repo
CliSeverity(lowered) ==
    IF \E w \in {"emergency", "critical", "urgent"} : Contains(lowered, w) THEN "HIGH"
    ELSE IF \E w \in {"hotfix", "production", "manual"} : Contains(lowered, w) THEN "MEDIUM"
    ELSE "LOW"

\* %h|%s|%ad, one line per commit
RECURSIVE cli_stdout(_)
cli_stdout(cs) ==
    IF cs = <<>> THEN ""
    ELSE IF Len(cs) = 1 THEN cs[1].hash \o "|" \o cs[1].message \o "|" \o cs[1].date
    ELSE cs[1].hash \o "|" \o cs[1].message \o "|" \o cs[1].date
             \o "\n" \o cli_stdout(Tail(cs))

\* for line in result.stdout.split('\n'): the events found
RECURSIVE CliLines(_, _)
CliLines(lines, path) ==
    IF lines = <<>> THEN <<>>
    ELSE IF strip(Head(lines)) = "" THEN CliLines(Tail(lines), path)
    ELSE LET fields == split(Head(lines), "|", 2)
             lowered == lower(fields[2])
             task_type == CliLoop(1, lowered)
         IN  (IF task_type = None THEN <<>>
              ELSE << [date |-> fields[3],
                       repo_path |-> path,
                       task_type |-> task_type,
                       description |-> fields[2],
                       severity |-> CliSeverity(lowered)] >>)
                 \o CliLines(Tail(lines), path)

CliMessages == {
    "deploy to production manually",
    "hotfix database issue",
    "Add feature 2",
    "bump a | restart b" }

\* a commit of the window of seven days, and one older than that
CliDates == {0, 0 - 10 * TicksPerDay}

\* the histories of up to n commits, oldest first
RECURSIVE CliHistories(_)
CliHistories(n) ==
    IF n = 0 THEN {<<>>}
    ELSE CliHistories(n - 1)
            \cup {hd \in
                     {Append(h, [hash |-> Hashes[n], message |-> m,
                                 date |-> "day" \o ToString(d \div TicksPerDay),
                                 author |-> "dev", files |-> <<>>, cdate |-> d]) :
                         h \in {g \in CliHistories(n - 1) : Len(g) = n - 1},
                         m \in CliMessages, d \in CliDates} :
                     \A i \in 1..(n - 1) : hd[i].cdate <= hd[n].cdate}

InitCli ==
    /\ ClassifierIdle
    /\ now = 0
    /\ \/ /\ worktree \in {"missing", "plain"}
          /\ history = [d \in {RepoPath} |-> <<>>]
       \/ /\ worktree = "git"
          /\ \E h \in CliHistories(MaxCommits) : history = [d \in {RepoPath} |-> h]
    /\ cache_dir = <<>>
    /\ pc = "idle"
    /\ repo_path = RepoPath
    /\ days_back = 0
    /\ result = <<>>
    /\ frame = NoFrame
    /\ just_done = [cur |-> NoCall, prev |-> Kept(NoCall)]
    /\ ncalls = 0
    /\ FilesIdle
    /\ PoolIdle
    /\ stdout = ""
    /\ commits = <<>>
    /\ toil_events = <<>>
    /\ returned = <<>>

\* scan_repo(repo_path, days, db_path)
scan_repo(days) ==
    /\ ncalls < MaxScans
    /\ ncalls' = ncalls + 1
    /\ days_back' = days
    /\ IF worktree # "git"
       THEN /\ returned' = Append(returned, 1)
            /\ UNCHANGED <<stdout, toil_events>>
       ELSE LET out == IF git_ok(history[RepoPath])
                       THEN cli_stdout(git_log(history[RepoPath], days, now))
                       ELSE ""
            IN  /\ stdout' = out
                /\ toil_events' = toil_events \o CliLines(split(out, "\n", -1), repo_path)
                /\ returned' = Append(returned, 0)
    /\ UNCHANGED <<cvars, fvars, pvars, commits, worktree, now, history, cache_dir, pc,
                   repo_path, result, frame, just_done>>

NextCli == \E days \in Windows : scan_repo(days)

SpecCli == InitCli /\ [][NextCli]_vars

(***************************************************************************)
(* Properties of scan_repo, checked under SpecCli.                         *)
(***************************************************************************)
\* the lower-cased message contains at least one toil keyword
HasToilKeyword(c) ==
    \E i \in 1..Len(CliPatterns) :
        \E k \in 1..Len(CliPatterns[i].keywords) :
            Contains(lower(c.message), CliPatterns[i].keywords[k])

\* the commits of the window of the scan that returned, with a toil keyword
ToilCommits == SelectSeq(git_log(history[RepoPath], days_back, now), HasToilKeyword)

\* C22 as stated: scan_repo on a git repository returns 0, and the table
\* then holds one row for each commit of the window whose lower-cased
\* message contains a toil keyword, and no other row.
C22_OneRowPerToilCommit ==
    (returned # <<>> /\ worktree = "git") =>
        /\ returned[Len(returned)] = 0
        /\ Len(toil_events) = Len(ToilCommits)
        /\ \A i \in 1..Len(toil_events) :
              toil_events[i].description = ToilCommits[i].message

(***************************************************************************)
(* The events of a scan with a loaded configuration, checked under         *)
(* SpecConfig.                                                             *)
(***************************************************************************)
RuleNamesOf(cfg) == {cfg.patterns[i].name : i \in 1..Len(cfg.patterns)}

\* C26 as stated: in every emitted event the category is the name of a rule
\* of the configured Rule Set and the severity is one of HIGH, MEDIUM, LOW.
C26_ClosedEnums ==
    phase = "scanned" =>
        \A e \in 1..Len(toil_found) :
            /\ toil_found[e].task_type \in RuleNamesOf(config)
            /\ toil_found[e].severity \in {"HIGH", "MEDIUM", "LOW"}
====
